---------------------------- MODULE Spec2Model ----------------------------
(***************************************************************************)
(* Multi-link beam selection: the joint-angle environment                  *)
(* (beam_environment.py), the four tabular agents (q_learning_agent.py,    *)
(* sarsa_agent.py, double_q_agent.py, expected_sarsa_agent.py) and the     *)
(* request handler that drives them (main.py).                             *)
(*                                                                         *)
(* Floating-point values are modelled by exact rationals <<num, den>> in   *)
(* lowest terms with den > 0.  np.log2 is modelled by its value rounded    *)
(* down to a multiple of 1/2.  Angle grids are restricted to right angles  *)
(* and link geometries to ones whose tx->rx distances are integers, so     *)
(* that sine, cosine and the norm are exact.                               *)
(***************************************************************************)
EXTENDS Integers, Sequences, FiniteSets, TLC

(***************************************************************************)
(* Bounds of the model.                                                    *)
(***************************************************************************)
MaxEpisodes == 2   \* train(episodes) is explored for episodes in 0..MaxEpisodes
RawRange == 4      \* a generator output is one of RawRange equally likely values
MaxLinks == 3      \* codec inputs: 1..MaxLinks links
MaxBase == 3       \* codec inputs: 1..MaxBase angle steps
MaxApply == 2      \* update-rule comparison: at most MaxApply successive updates

(***************************************************************************)
(* Exact rational arithmetic standing for the program's float arithmetic.  *)
(***************************************************************************)
Abs(x) == IF x < 0 THEN -x ELSE x

RECURSIVE GCD(_, _)
GCD(a, b) == IF b = 0 THEN a ELSE GCD(b, a % b)

Rat(n, d) ==
    LET ratGcd == GCD(Abs(n), Abs(d))
        ratSign == IF d < 0 THEN -1 ELSE 1
    IN  <<(ratSign * n) \div ratGcd, (ratSign * d) \div ratGcd>>

RInt(k) == <<k, 1>>
Zero == RInt(0)
One == RInt(1)

RAdd(a, b) ==
    LET addGcd == GCD(a[2], b[2])
    IN  Rat(a[1] * (b[2] \div addGcd) + b[1] * (a[2] \div addGcd),
            a[2] * (b[2] \div addGcd))

RNeg(a) == <<-a[1], a[2]>>
RSub(a, b) == RAdd(a, RNeg(b))

RMul(a, b) ==
    LET g1 == GCD(Abs(a[1]), b[2])
        g2 == GCD(Abs(b[1]), a[2])
        h1 == IF g1 = 0 THEN 1 ELSE g1
        h2 == IF g2 = 0 THEN 1 ELSE g2
    IN  Rat((a[1] \div h1) * (b[1] \div h2), (a[2] \div h2) * (b[2] \div h1))

RDiv(a, b) == RMul(a, Rat(b[2], b[1]))
RLess(a, b) == a[1] * b[2] < b[1] * a[2]
RLeq(a, b) == a[1] * b[2] <= b[1] * a[2]

\* a ** k for a rational a >= 0 in lowest terms
RPow(a, k) == <<a[1] ^ k, a[2] ^ k>>

Pow(b, e) == b ^ e

\* the sum of entries i..Len(seq) of a sequence of rationals
RECURSIVE SumFrom(_, _)
SumFrom(seq, i) == IF i > Len(seq) THEN Zero ELSE RAdd(seq[i], SumFrom(seq, i + 1))

SumSeq(seq) == SumFrom(seq, 1)

\* np.log2(x) for x >= 1, rounded down to a multiple of 1/2.
Log2(x) ==
    LET sq == RMul(x, x)
        m == CHOOSE k \in 0..30 :
                 /\ RLeq(RInt(Pow(2, k)), sq)
                 /\ (k = 30 \/ RLess(sq, RInt(Pow(2, k + 1))))
    IN  Rat(m, 2)

(***************************************************************************)
(* beam_environment.py : MultiBeamEnvironment2D                            *)
(***************************************************************************)
\* np.linspace(0, 360, num_steps, endpoint=False), 0-based index k
AzimuthAngle(num_steps, k) == Rat(360 * k, num_steps)

\* The azimuth grid as a 1-based sequence: entry k+1 is the angle of index k
azimuth_angles(num_steps) == [k \in 1..num_steps |-> AzimuthAngle(num_steps, k - 1)]

\* _to_state_index: index += angle_idx * num_steps ** i, i = 0, 1, ...
RECURSIVE ToStateIndexFrom(_, _, _)
ToStateIndexFrom(num_steps, angle_indices, i) ==
    IF i > Len(angle_indices) THEN 0
    ELSE angle_indices[i] * Pow(num_steps, i - 1)
         + ToStateIndexFrom(num_steps, angle_indices, i + 1)

\* as _to_state_index, with the last link as the least-significant digit
ToStateIndexLastLinkFirst(num_steps, angle_indices) ==
    LET tsLen == Len(angle_indices)
    IN  ToStateIndexFrom(num_steps,
            [j \in 1..tsLen |-> angle_indices[tsLen + 1 - j]], 1)

ToStateIndex(num_steps, angle_indices) == ToStateIndexFrom(num_steps, angle_indices, 1)

\* _to_angle_indices: num_links times (state_index % num_steps, state_index //= num_steps)
RECURSIVE ToAngleIndicesLoop(_, _, _)
ToAngleIndicesLoop(num_steps, count, state_index) ==
    IF count = 0 THEN <<>>
    ELSE <<state_index % num_steps>>
         \o ToAngleIndicesLoop(num_steps, count - 1, state_index \div num_steps)

ToAngleIndices(num_steps, num_links, state_index) ==
    ToAngleIndicesLoop(num_steps, num_links, state_index)

\* np.cos(np.deg2rad(a)) and np.sin(np.deg2rad(a)) on the right angles
CosDeg(a) == CASE a = RInt(0) -> RInt(1)
               [] a = RInt(90) -> RInt(0)
               [] a = RInt(180) -> RInt(-1)
               [] a = RInt(270) -> RInt(0)

SinDeg(a) == CASE a = RInt(0) -> RInt(0)
               [] a = RInt(90) -> RInt(1)
               [] a = RInt(180) -> RInt(0)
               [] a = RInt(270) -> RInt(-1)

\* np.linalg.norm of an integer vector whose length is an integer
Norm(dx, dy) == CHOOSE k \in 0..(Abs(dx) + Abs(dy)) : k * k = dx * dx + dy * dy

RMax(a, b) == IF RLess(a, b) THEN b ELSE a

\* _get_beam_alignment
GetBeamAlignment(tx_pos, rx_pos, tx_angle_deg) ==
    LET dx == rx_pos[1] - tx_pos[1]
        dy == rx_pos[2] - tx_pos[2]
        norm == Norm(dx, dy)
    IN  IF norm = 0 THEN One
        ELSE RMax(Zero,
                  RAdd(RMul(CosDeg(tx_angle_deg), Rat(dx, norm)),
                       RMul(SinDeg(tx_angle_deg), Rat(dy, norm))))

noise == Rat(1, 10)

\* 10 * alignment ** 10
BeamPower(alignment) == RMul(RInt(10), RPow(alignment, 10))

\* interference_power on link i: the sum over j # i of the power of TX_j at RX_i
RECURSIVE InterferencePower(_, _, _, _, _)
InterferencePower(links, num_steps, action_indices, i, j) ==
    IF j > Len(links) THEN Zero
    ELSE RAdd(IF i = j THEN Zero
              ELSE BeamPower(GetBeamAlignment(links[j].tx_pos, links[i].rx_pos,
                                 AzimuthAngle(num_steps, action_indices[j]))),
              InterferencePower(links, num_steps, action_indices, i, j + 1))

\* capacity of link i: log2(1 + signal_power / (interference_power + noise))
LinkCapacity(links, num_steps, action_indices, i) ==
    LET signal_power ==
            BeamPower(GetBeamAlignment(links[i].tx_pos, links[i].rx_pos,
                          AzimuthAngle(num_steps, action_indices[i])))
        interference_power == InterferencePower(links, num_steps, action_indices, i, 1)
        sinr == RDiv(signal_power, RAdd(interference_power, noise))
    IN  Log2(RAdd(One, sinr))

\* get_individual_capacities: the loop state after links 1..i have been processed
RECURSIVE CapacityLoop(_, _, _, _)
CapacityLoop(links, num_steps, action_indices, i) ==
    IF i = 0 THEN [individual_capacities |-> <<>>, total_capacity |-> Zero]
    ELSE LET prev == CapacityLoop(links, num_steps, action_indices, i - 1)
             capacity == LinkCapacity(links, num_steps, action_indices, i)
         IN  [individual_capacities |-> Append(prev.individual_capacities, capacity),
              total_capacity |-> RAdd(prev.total_capacity, capacity)]

GetIndividualCapacities(links, num_steps, action_indices) ==
    CapacityLoop(links, num_steps, action_indices, Len(links))

\* _calculate_network_capacity: sum(capacities)
CalculateNetworkCapacity(links, num_steps, action_indices) ==
    SumSeq(GetIndividualCapacities(links, num_steps, action_indices).individual_capacities)

(***************************************************************************)
(* Tables and the agents' pure parts                                       *)
(***************************************************************************)
\* np.zeros((state_size, action_size)), indexed from 0
ZeroTable(size) == [st \in 0..(size - 1) |-> [ac \in 0..(size - 1) |-> Zero]]

NoTable == [st \in {} |-> Zero]

\* np.max(row)
RowMax(row) ==
    LET rowDom == DOMAIN row
    IN  row[CHOOSE mi \in rowDom : \A mj \in rowDom : RLeq(row[mj], row[mi])]

\* np.argmax(row): the first index holding the maximum
ArgMax(row) ==
    LET amDom == DOMAIN row
    IN  CHOOSE mi \in amDom :
            /\ \A mj \in amDom : RLeq(row[mj], row[mi])
            /\ \A mj \in amDom : mj < mi => RLess(row[mj], row[mi])

\* np.sum(row)
RECURSIVE RowSumFrom(_, _, _)
RowSumFrom(row, k, size) ==
    IF k >= size THEN Zero ELSE RAdd(row[k], RowSumFrom(row, k + 1, size))

RowSum(row) == RowSumFrom(row, 0, Cardinality(DOMAIN row))

\* q1[state] + q2[state]
RowAdd(row1, row2) == [ac \in DOMAIN row1 |-> RAdd(row1[ac], row2[ac])]

\* np.max(table, axis=0): for each action the maximum over the states
ColumnMax(table) ==
    LET cmDom == DOMAIN table
    IN  [ac \in cmDom |-> RowMax([st \in cmDom |-> table[st][ac]])]

\* (1 - alpha) * old_value + alpha * (reward + gamma * next_value)
Blend(alpha, gamma, old_value, reward, next_value) ==
    RAdd(RMul(RSub(One, alpha), old_value),
         RMul(alpha, RAdd(reward, RMul(gamma, next_value))))

\* as SetCell, with the two indices exchanged
SetCellTransposed(table, state, action, new_value) ==
    [table EXCEPT ![action] = [table[action] EXCEPT ![state] = new_value]]

\* self.q_table[state, action] = new_value
SetCell(table, state, action, new_value) ==
    [table EXCEPT ![state] = [table[state] EXCEPT ![action] = new_value]]

\* MultiLinkQLearningAgent.update_q_table
QLearningUpdate(q_table, alpha, gamma, state, action, reward, next_state) ==
    SetCell(q_table, state, action,
            Blend(alpha, gamma, q_table[state][action], reward, RowMax(q_table[next_state])))

\* as SarsaUpdate, bootstrapping from the largest entry of the next row
SarsaUpdateGreedyNext(q_table, alpha, gamma, state, action, reward, next_state, next_action) ==
    SetCell(q_table, state, action,
            Blend(alpha, gamma, q_table[state][action], reward,
                  RowMax(q_table[next_state])))

\* MultiLinkSarsaAgent.update_q_table
SarsaUpdate(q_table, alpha, gamma, state, action, reward, next_state, next_action) ==
    SetCell(q_table, state, action,
            Blend(alpha, gamma, q_table[state][action], reward,
                  q_table[next_state][next_action]))

\* as get_expected_value, weighting the row sum by 1/|A| whatever epsilon is
GetExpectedValueUniformShare(q_table, epsilon, state) ==
    LET uq_values == q_table[state]
        unum_actions == Cardinality(DOMAIN uq_values)
        ugreedy_prob == RAdd(RSub(One, epsilon), RDiv(epsilon, RInt(unum_actions)))
        urandom_prob == RDiv(One, RInt(unum_actions))
    IN  RAdd(RMul(ugreedy_prob, RowMax(uq_values)), RMul(urandom_prob, RowSum(uq_values)))

\* MultiLinkExpectedSarsaAgent.get_expected_value
GetExpectedValue(q_table, epsilon, state) ==
    LET q_values == q_table[state]
        max_q == RowMax(q_values)
        num_actions == Cardinality(DOMAIN q_values)
        greedy_prob == RAdd(RSub(One, epsilon), RDiv(epsilon, RInt(num_actions)))
        random_prob == RDiv(epsilon, RInt(num_actions))
    IN  RAdd(RMul(greedy_prob, max_q), RMul(random_prob, RowSum(q_values)))

\* MultiLinkExpectedSarsaAgent.update_q_table
ExpectedSarsaUpdate(q_table, alpha, gamma, epsilon, state, action, reward, next_state) ==
    SetCell(q_table, state, action,
            Blend(alpha, gamma, q_table[state][action], reward,
                  GetExpectedValue(q_table, epsilon, next_state)))

\* as DoubleQUpdate, bootstrapping from `other` at the greedy action of `mine`
DoubleQUpdateOwnGreedy(mine, other, alpha, gamma, state, action, reward, next_state) ==
    SetCell(mine, state, action,
            Blend(alpha, gamma, mine[state][action], reward,
                  other[next_state][ArgMax(mine[next_state])]))

\* MultiLinkDoubleQLearningAgent.update_q_table, the branch that writes `mine`
\* and bootstraps from `other` at other's own greedy action
DoubleQUpdate(mine, other, alpha, gamma, state, action, reward, next_state) ==
    SetCell(mine, state, action,
            Blend(alpha, gamma, mine[state][action], reward,
                  other[next_state][ArgMax(other[next_state])]))

(***************************************************************************)
(* State                                                                   *)
(***************************************************************************)
VARIABLES
    request,    \* request[r]: the OptimizationRequest (links, algorithm_type)
    config,     \* config[r]: the literals optimize_beams passes on (num_steps,
                \*   alpha, gamma, epsilon, episodes)
    pc,         \* pc[r]: where the handler of request r stands
    env,        \* env[r]: the MultiBeamEnvironment2D of request r
    agent,      \* agent[r]: the agent of request r (kind, rates, q1, q2)
    loc,        \* loc[r]: the locals of train (i, state, action, next_state, ...)
    response,   \* response[r]: the OptimizationResult returned
    calls,      \* calls[r]: how often each operation has run for request r, and
                \*   the (reset state, chosen action) pairs of its completed episodes
    proc,       \* proc[r]: the server process that serves request r
    running,    \* running[p]: the request the event loop of process p is in, or 0
    seeded,     \* whether the generators were seeded (their streams are then fixed)
    np_tape,    \* the output stream of numpy's global generator under the seed
    py_tape,    \* the output stream of the random module's generator under the seed
    np_pos,     \* np_pos[p]: outputs consumed from numpy's generator in process p
    py_pos,     \* py_pos[p]: outputs consumed from random's generator in process p
    codec,      \* the codec under test: its inputs and outputs
    upd         \* the update rules under test: two tables and the step count

vars == <<request, config, pc, env, agent, loc, response, calls, proc, running,
          seeded, np_tape, py_tape, np_pos, py_pos, codec, upd>>

handlerVars == <<request, config, pc, env, agent, loc, response, calls, proc, running,
                 seeded, np_tape, py_tape, np_pos, py_pos>>

Requests == 1..3
Processes == 1..2

Algorithms == {"q_learning", "sarsa", "double_q", "expected_sarsa"}

\* rates k/2: the constructors accept any alpha, gamma, epsilon
Half == Rat(1, 2)

\* (alpha, gamma, epsilon) triples the handler is explored with
HyperChoices == { <<Half, Half, Half>>, <<Half, One, Zero>> }

Link(tx, rx) == [tx_pos |-> tx, rx_pos |-> rx]

\* link lists with num_steps such that num_steps ** len(links) <= 4
Scenarios ==
    { [links |-> <<>>, num_steps |-> 4],
      [links |-> <<Link(<<0, 0>>, <<1, 0>>)>>, num_steps |-> 2],
      [links |-> <<Link(<<0, 0>>, <<0, 0>>)>>, num_steps |-> 2],
      [links |-> <<Link(<<0, 0>>, <<1, 0>>), Link(<<3, 0>>, <<2, 0>>)>>, num_steps |-> 2] }

NoRequest == [links |-> <<>>, algorithm_type |-> ""]
NoConfig == [num_steps |-> 1, alpha |-> Zero, gamma |-> Zero, epsilon |-> Zero,
             episodes |-> 0]
NoEnv == [num_azimuth_steps |-> 0, num_links |-> 0, state_space_size |-> 0,
          action_space_size |-> 0, links |-> <<>>, state |-> 0]
NoAgent == [kind |-> "", alpha |-> Zero, gamma |-> Zero, epsilon |-> Zero,
            q1 |-> NoTable, q2 |-> NoTable]
NoLoc == [i |-> 0, state |-> 0, action |-> 0, next_state |-> 0, reward |-> Zero,
          done |-> FALSE, next_action |-> 0, best_joint_action_idx |-> 0,
          results |-> <<>>, total_capacity |-> Zero]
NoResponse == [success |-> FALSE, message |-> "", total_capacity |-> Zero,
               results |-> <<>>, algorithm_type |-> ""]
NoCalls == [reset |-> 0, choose_action |-> 0, step |-> 0, update |-> 0, extract |-> 0,
            capacities_in_step |-> 0, capacities_in_train |-> 0, taken |-> {}]

(***************************************************************************)
(* The generators: np.random (reset, __init__) and random (the agents).    *)
(* Unseeded, every output is free.  Seeded, the stream is a fixed but      *)
(* unknown sequence: an output is chosen when a position is first read and *)
(* is the same for every later read of that position.                      *)
(***************************************************************************)
Raw == 0..(RawRange - 1)

TapeDraws(tape, pos) ==
    IF seeded /\ pos < Len(tape) THEN {tape[pos + 1]} ELSE Raw

TapeAfter(tape, pos, raw) ==
    IF seeded /\ pos = Len(tape) THEN Append(tape, raw) ELSE tape

PosAfter(pos, count) == IF seeded THEN pos + count ELSE pos

\* as RandInt, with the upper end n included
RandIntInclusive(raw, n) == (raw * (n + 1)) \div RawRange

\* an integer drawn uniformly from 0..n-1 out of one generator output
RandInt(raw, n) == (raw * n) \div RawRange

\* a float drawn uniformly from [0, 1) out of one generator output
Uniform01(raw) == Rat(raw, RawRange)

TypeOK ==
    /\ pc \in [Requests -> {"idle", "construct_env", "select_agent", "loop", "choose",
                            "step", "next_action", "update", "return", "done"}]
    /\ running \in [Processes -> {0} \cup Requests]
    /\ proc \in [Requests -> Processes]
    /\ seeded \in BOOLEAN

(***************************************************************************)
(* main.py : optimize_beams                                                *)
(***************************************************************************)
InitHandlers ==
    /\ request = [r \in Requests |-> NoRequest]
    /\ config = [r \in Requests |-> NoConfig]
    /\ pc = [r \in Requests |-> "idle"]
    /\ env = [r \in Requests |-> NoEnv]
    /\ agent = [r \in Requests |-> NoAgent]
    /\ loc = [r \in Requests |-> NoLoc]
    /\ response = [r \in Requests |-> NoResponse]
    /\ calls = [r \in Requests |-> NoCalls]
    /\ running = [p \in Processes |-> 0]
    /\ np_tape = <<>>
    /\ py_tape = <<>>
    /\ np_pos = [p \in Processes |-> 0]
    /\ py_pos = [p \in Processes |-> 0]

\* A request arrives and the event loop of its process enters the handler.  The
\* handler is an async function without an await: the loop runs it to its end
\* before it takes the next request of that process.
SubmitFrom(r, scenarios, selectors, hypers, counts) ==
    /\ pc[r] = "idle"
    /\ running[proc[r]] = 0
    /\ \E sc \in scenarios, alg \in selectors, hy \in hypers, ep \in counts :
          /\ request' = [request EXCEPT ![r] =
                            [links |-> sc.links, algorithm_type |-> alg]]
          /\ config' = [config EXCEPT ![r] =
                            [num_steps |-> sc.num_steps, alpha |-> hy[1],
                             gamma |-> hy[2], epsilon |-> hy[3], episodes |-> ep]]
    /\ running' = [running EXCEPT ![proc[r]] = r]
    /\ pc' = [pc EXCEPT ![r] = "construct_env"]
    /\ UNCHANGED <<env, agent, loc, response, calls, proc, seeded, np_tape, py_tape,
                   np_pos, py_pos, codec, upd>>

\* Any request: any scenario, any selector (one of them unknown), any rates
Submit(r) ==
    SubmitFrom(r, Scenarios, Algorithms \cup {"dqn"}, HyperChoices, 0..MaxEpisodes)

\* MultiBeamEnvironment2D.__init__
ConstructEnv(r) ==
    /\ pc[r] = "construct_env"
    /\ running[proc[r]] = r
    /\ LET num_steps == config[r].num_steps
           num_links == Len(request[r].links)
           size == num_steps ^ num_links
       IN  \E raw \in TapeDraws(np_tape, np_pos[proc[r]]) :
              /\ env' = [env EXCEPT ![r] =
                            [num_azimuth_steps |-> num_steps,
                             num_links |-> num_links,
                             state_space_size |-> size,
                             action_space_size |-> num_steps ^ num_links,
                             links |-> request[r].links,
                             state |-> RandInt(raw, size)]]
              /\ np_tape' = TapeAfter(np_tape, np_pos[proc[r]], raw)
              /\ np_pos' = [np_pos EXCEPT ![proc[r]] = PosAfter(@, 1)]
    /\ pc' = [pc EXCEPT ![r] = "select_agent"]
    /\ UNCHANGED <<request, config, agent, loc, response, calls, proc, running, seeded,
                   py_tape, py_pos, codec, upd>>

\* as the if/elif chain, with an else branch that constructs a default agent
SelectsAgentByDefault(algorithm_type) == TRUE

\* The if/elif chain of optimize_beams: whether a branch constructs an agent
SelectsAgent(algorithm_type) == algorithm_type \in Algorithms

\* The agents' __init__, reached through the if/elif chain of optimize_beams
ConstructAgent(r) ==
    /\ pc[r] = "select_agent"
    /\ running[proc[r]] = r
    /\ SelectsAgent(request[r].algorithm_type)
    /\ agent' = [agent EXCEPT ![r] =
                    [kind |-> request[r].algorithm_type,
                     alpha |-> config[r].alpha,
                     gamma |-> config[r].gamma,
                     epsilon |-> config[r].epsilon,
                     q1 |-> ZeroTable(env[r].state_space_size),
                     q2 |-> IF request[r].algorithm_type = "double_q"
                            THEN ZeroTable(env[r].state_space_size) ELSE NoTable]]
    /\ loc' = [loc EXCEPT ![r] = NoLoc]
    /\ pc' = [pc EXCEPT ![r] = "loop"]
    /\ UNCHANGED <<request, config, env, response, calls, proc, running, seeded,
                   np_tape, py_tape, np_pos, py_pos, codec, upd>>

\* The else branch raises ValueError; the except clause returns the failure
UnknownAlgorithm(r) ==
    /\ pc[r] = "select_agent"
    /\ running[proc[r]] = r
    /\ ~SelectsAgent(request[r].algorithm_type)
    /\ response' = [response EXCEPT ![r] =
                       [success |-> FALSE,
                        message |-> "Unknown algorithm type",
                        total_capacity |-> Zero,
                        results |-> <<>>,
                        algorithm_type |-> request[r].algorithm_type]]
    /\ running' = [running EXCEPT ![proc[r]] = 0]
    /\ pc' = [pc EXCEPT ![r] = "done"]
    /\ UNCHANGED <<request, config, env, agent, loc, calls, proc, seeded,
                   np_tape, py_tape, np_pos, py_pos, codec, upd>>

(***************************************************************************)
(* The agents: choose_action, train                                        *)
(***************************************************************************)
\* The row choose_action takes the argmax of: q_table[state], or q1[state] + q2[state]
GreedyRow(ag, state) ==
    IF ag.kind = "double_q" THEN RowAdd(ag.q1[state], ag.q2[state]) ELSE ag.q1[state]

\* The table train takes the best action from: q_table, or q1 + q2
ValueTable(ag) ==
    IF ag.kind = "double_q"
    THEN [st \in DOMAIN ag.q1 |-> RowAdd(ag.q1[st], ag.q2[st])]
    ELSE ag.q1

\* random.uniform(0, 1) < self.epsilon
Explores(raw, epsilon) == RLess(Uniform01(raw), epsilon)

\* choose_action(state) of request r: the action returned, with the generator's
\* stream and position after the call
ChooseOutcomes(r, state) ==
    LET coPos == py_pos[proc[r]]
    IN  UNION { LET coTape == TapeAfter(py_tape, coPos, raw1)
                IN  IF Explores(raw1, agent[r].epsilon)
                    THEN { [action |-> RandInt(raw2, env[r].action_space_size),
                            tape |-> TapeAfter(coTape, coPos + 1, raw2),
                            pos |-> PosAfter(coPos, 2)] :
                           raw2 \in IF seeded /\ coPos + 1 < Len(coTape)
                                    THEN {coTape[coPos + 2]} ELSE Raw }
                    ELSE { [action |-> ArgMax(GreedyRow(agent[r], state)),
                            tape |-> coTape,
                            pos |-> PosAfter(coPos, 1)] } :
                raw1 \in TapeDraws(py_tape, coPos) }

InTrain(r, at) == pc[r] = at /\ running[proc[r]] = r

\* as the loop test, for range(episodes - 1)
LoopStopsOneEarly(i, episodes) == i + 1 < episodes

\* for i in range(episodes): whether the loop body runs once more
LoopContinues(i, episodes) == i < episodes

\* state = self.env.reset()
Reset(r) ==
    /\ InTrain(r, "loop")
    /\ LoopContinues(loc[r].i, config[r].episodes)
    /\ \E raw \in TapeDraws(np_tape, np_pos[proc[r]]) :
          /\ env' = [env EXCEPT ![r].state = RandInt(raw, env[r].state_space_size)]
          /\ loc' = [loc EXCEPT ![r].state = RandInt(raw, env[r].state_space_size)]
          /\ np_tape' = TapeAfter(np_tape, np_pos[proc[r]], raw)
          /\ np_pos' = [np_pos EXCEPT ![proc[r]] = PosAfter(@, 1)]
    /\ calls' = [calls EXCEPT ![r].reset = @ + 1]
    /\ pc' = [pc EXCEPT ![r] = "choose"]
    /\ UNCHANGED <<request, config, agent, response, proc, running, seeded,
                   py_tape, py_pos, codec, upd>>

\* action = self.choose_action(state)
ChooseAction(r) ==
    /\ InTrain(r, "choose")
    /\ \E out \in ChooseOutcomes(r, loc[r].state) :
          /\ loc' = [loc EXCEPT ![r].action = out.action]
          /\ py_tape' = out.tape
          /\ py_pos' = [py_pos EXCEPT ![proc[r]] = out.pos]
    /\ calls' = [calls EXCEPT ![r].choose_action = @ + 1]
    /\ pc' = [pc EXCEPT ![r] = "step"]
    /\ UNCHANGED <<request, config, env, agent, response, proc, running, seeded,
                   np_tape, np_pos, codec, upd>>

\* as step's reward, computed for the state the environment was in
StepRewardOfOldState(e, action) ==
    CalculateNetworkCapacity(e.links, e.num_azimuth_steps,
        ToAngleIndices(e.num_azimuth_steps, e.num_links, e.state))

\* MultiBeamEnvironment2D.step: the reward of a joint action
StepReward(e, action) ==
    CalculateNetworkCapacity(e.links, e.num_azimuth_steps,
        ToAngleIndices(e.num_azimuth_steps, e.num_links, action))

\* as step's count, with the reward taken from a cache instead of a capacity query
CountStepCached(c) == [c EXCEPT !.step = @ + 1]

\* step ran once more; it queries get_individual_capacities once, through
\* _calculate_network_capacity
CountStep(c) == [c EXCEPT !.step = @ + 1, !.capacities_in_step = @ + 1]

\* next_state, reward, done = self.env.step(action)
Step(r) ==
    /\ InTrain(r, "step")
    /\ env' = [env EXCEPT ![r].state = loc[r].action]
    /\ loc' = [loc EXCEPT ![r].next_state = loc[r].action,
                          ![r].reward = StepReward(env[r], loc[r].action),
                          ![r].done = TRUE]
    /\ calls' = [calls EXCEPT ![r] = CountStep(@)]
    /\ pc' = [pc EXCEPT ![r] = IF agent[r].kind = "sarsa" THEN "next_action"
                                ELSE "update"]
    /\ UNCHANGED <<request, config, agent, response, proc, running, seeded,
                   np_tape, py_tape, np_pos, py_pos, codec, upd>>

\* SARSA: next_action = self.choose_action(next_state)
ChooseNextAction(r) ==
    /\ InTrain(r, "next_action")
    /\ \E out \in ChooseOutcomes(r, loc[r].next_state) :
          /\ loc' = [loc EXCEPT ![r].next_action = out.action]
          /\ py_tape' = out.tape
          /\ py_pos' = [py_pos EXCEPT ![proc[r]] = out.pos]
    /\ calls' = [calls EXCEPT ![r].choose_action = @ + 1]
    /\ pc' = [pc EXCEPT ![r] = "update"]
    /\ UNCHANGED <<request, config, env, agent, response, proc, running, seeded,
                   np_tape, np_pos, codec, upd>>

\* What every update is followed by: the end of the loop body
AfterUpdate(r) ==
    /\ loc' = [loc EXCEPT ![r].i = @ + 1]
    /\ calls' = [calls EXCEPT ![r].update = @ + 1,
                              ![r].taken = @ \cup {<<loc[r].state, loc[r].action>>}]
    /\ pc' = [pc EXCEPT ![r] = "loop"]

\* Q-learning: self.update_q_table(state, action, reward, next_state)
UpdateQLearning(r) ==
    /\ InTrain(r, "update")
    /\ agent[r].kind = "q_learning"
    /\ agent' = [agent EXCEPT ![r].q1 =
                    QLearningUpdate(agent[r].q1, agent[r].alpha, agent[r].gamma,
                        loc[r].state, loc[r].action, loc[r].reward, loc[r].next_state)]
    /\ AfterUpdate(r)
    /\ UNCHANGED <<request, config, env, response, proc, running, seeded,
                   np_tape, py_tape, np_pos, py_pos, codec, upd>>

\* SARSA: self.update_q_table(state, action, reward, next_state, next_action)
UpdateSarsa(r) ==
    /\ InTrain(r, "update")
    /\ agent[r].kind = "sarsa"
    /\ agent' = [agent EXCEPT ![r].q1 =
                    SarsaUpdate(agent[r].q1, agent[r].alpha, agent[r].gamma,
                        loc[r].state, loc[r].action, loc[r].reward, loc[r].next_state,
                        loc[r].next_action)]
    /\ AfterUpdate(r)
    /\ UNCHANGED <<request, config, env, response, proc, running, seeded,
                   np_tape, py_tape, np_pos, py_pos, codec, upd>>

\* Expected SARSA: self.update_q_table(state, action, reward, next_state)
UpdateExpectedSarsa(r) ==
    /\ InTrain(r, "update")
    /\ agent[r].kind = "expected_sarsa"
    /\ agent' = [agent EXCEPT ![r].q1 =
                    ExpectedSarsaUpdate(agent[r].q1, agent[r].alpha, agent[r].gamma,
                        agent[r].epsilon, loc[r].state, loc[r].action, loc[r].reward,
                        loc[r].next_state)]
    /\ AfterUpdate(r)
    /\ UNCHANGED <<request, config, env, response, proc, running, seeded,
                   np_tape, py_tape, np_pos, py_pos, codec, upd>>

\* random.random() < 0.5
UpdatesQ1(raw) == RLess(Uniform01(raw), Half)

\* as CoinDraws, from a generator the seed does not reach
CoinDrawsUnseeded(r) == Raw

\* the outputs random.random() can deliver to request r
CoinDraws(r) == TapeDraws(py_tape, py_pos[proc[r]])

\* Double Q-learning: self.update_q_table(state, action, reward, next_state)
UpdateDoubleQ(r) ==
    /\ InTrain(r, "update")
    /\ agent[r].kind = "double_q"
    /\ \E raw \in CoinDraws(r) :
          /\ agent' = IF UpdatesQ1(raw)
                      THEN [agent EXCEPT ![r].q1 =
                               DoubleQUpdate(agent[r].q1, agent[r].q2, agent[r].alpha,
                                   agent[r].gamma, loc[r].state, loc[r].action,
                                   loc[r].reward, loc[r].next_state)]
                      ELSE [agent EXCEPT ![r].q2 =
                               DoubleQUpdate(agent[r].q2, agent[r].q1, agent[r].alpha,
                                   agent[r].gamma, loc[r].state, loc[r].action,
                                   loc[r].reward, loc[r].next_state)]
          /\ py_tape' = TapeAfter(py_tape, py_pos[proc[r]], raw)
          /\ py_pos' = [py_pos EXCEPT ![proc[r]] = PosAfter(@, 1)]
    /\ AfterUpdate(r)
    /\ UNCHANGED <<request, config, env, response, proc, running, seeded,
                   np_tape, np_pos, codec, upd>>

\* as BestJointAction, with the maximum taken along the other axis (axis=1)
BestJointActionOverActions(ag) ==
    LET bt == ValueTable(ag)
    IN  ArgMax([st \in DOMAIN bt |-> RowMax(bt[st])])

\* np.argmax(np.max(table, axis=0))
BestJointAction(ag) == ArgMax(ColumnMax(ValueTable(ag)))

\* the result records of train, one per link
FormatResults(e, best_angle_indices, individual_capacities) ==
    [k \in 1..e.num_links |->
        [capacity |-> individual_capacities[k],
         azimuth |-> azimuth_angles(e.num_azimuth_steps)[best_angle_indices[k] + 1]]]

\* the tail of train ran once more; it queries get_individual_capacities once
CountExtract(c) == [c EXCEPT !.extract = @ + 1, !.capacities_in_train = @ + 1]

\* The tail of train: best action, its capacity breakdown, the result records
Extract(r) ==
    /\ InTrain(r, "loop")
    /\ ~LoopContinues(loc[r].i, config[r].episodes)
    /\ LET best == BestJointAction(agent[r])
           best_angle_indices ==
               ToAngleIndices(env[r].num_azimuth_steps, env[r].num_links, best)
           breakdown == GetIndividualCapacities(env[r].links, env[r].num_azimuth_steps,
                            best_angle_indices)
       IN  loc' = [loc EXCEPT ![r].best_joint_action_idx = best,
                              ![r].results = FormatResults(env[r], best_angle_indices,
                                                 breakdown.individual_capacities),
                              ![r].total_capacity = breakdown.total_capacity]
    /\ calls' = [calls EXCEPT ![r] = CountExtract(@)]
    /\ pc' = [pc EXCEPT ![r] = "return"]
    /\ UNCHANGED <<request, config, env, agent, response, proc, running, seeded,
                   np_tape, py_tape, np_pos, py_pos, codec, upd>>

\* optimize_beams returns the success result
Respond(r) ==
    /\ InTrain(r, "return")
    /\ response' = [response EXCEPT ![r] =
                       [success |-> TRUE,
                        message |-> "Optimization completed successfully",
                        total_capacity |-> loc[r].total_capacity,
                        results |-> loc[r].results,
                        algorithm_type |-> request[r].algorithm_type]]
    /\ running' = [running EXCEPT ![proc[r]] = 0]
    /\ pc' = [pc EXCEPT ![r] = "done"]
    /\ UNCHANGED <<request, config, env, agent, loc, calls, proc, seeded,
                   np_tape, py_tape, np_pos, py_pos, codec, upd>>

\* One step of train for request r
TrainStep(r) ==
    \/ Reset(r)
    \/ ChooseAction(r)
    \/ Step(r)
    \/ ChooseNextAction(r)
    \/ UpdateQLearning(r)
    \/ UpdateSarsa(r)
    \/ UpdateExpectedSarsa(r)
    \/ UpdateDoubleQ(r)
    \/ Extract(r)

NoCodec == [num_links |-> 0, num_steps |-> 1, phase |-> "off", given |-> <<>>,
            code |-> 0, indices |-> <<>>]
NoUpd == [count |-> 0, q_table |-> NoTable, es_table |-> NoTable, alpha |-> Zero,
          gamma |-> Zero, epsilon |-> Zero]

(***************************************************************************)
(* One request served by one process, generators unseeded                  *)
(***************************************************************************)
Init ==
    /\ InitHandlers
    /\ proc = [r \in Requests |-> 1]
    /\ seeded = FALSE
    /\ codec = NoCodec
    /\ upd = NoUpd

Next ==
    \/ Submit(1)
    \/ ConstructEnv(1)
    \/ ConstructAgent(1)
    \/ UnknownAlgorithm(1)
    \/ TrainStep(1)
    \/ Respond(1)

Spec == Init /\ [][Next]_vars

TrainPhases == {"loop", "choose", "step", "next_action", "update", "return"}

\* the handler of request r has returned the success result
Succeeded(r) == pc[r] = "done" /\ response[r].success

\* C2: after construction and through every training episode of every agent, the
\* environment's state and every action choose_action returned are integers in
\* [0, num_steps^num_links), both space sizes equal num_steps^num_links, the tables
\* are indexed by exactly that range and every decoded per-link index is in
\* [0, num_steps).
C2_StatesAndActionsInRange ==
    \A r \in Requests :
        pc[r] \notin {"idle", "construct_env"} =>
            LET c2n == config[r].num_steps ^ Len(request[r].links)
            IN  /\ env[r].state_space_size = c2n
                /\ env[r].action_space_size = c2n
                /\ env[r].state \in 0..(c2n - 1)
                /\ loc[r].state \in 0..(c2n - 1)
                /\ loc[r].action \in 0..(c2n - 1)
                /\ loc[r].next_state \in 0..(c2n - 1)
                /\ loc[r].next_action \in 0..(c2n - 1)
                /\ loc[r].best_joint_action_idx \in 0..(c2n - 1)
                /\ agent[r].kind # "" =>
                      /\ DOMAIN agent[r].q1 = 0..(c2n - 1)
                      /\ \A st \in 0..(c2n - 1) : DOMAIN agent[r].q1[st] = 0..(c2n - 1)
                /\ agent[r].kind = "double_q" =>
                      /\ DOMAIN agent[r].q2 = 0..(c2n - 1)
                      /\ \A st \in 0..(c2n - 1) : DOMAIN agent[r].q2[st] = 0..(c2n - 1)
                /\ \A k \in 1..Len(request[r].links) :
                      /\ ToAngleIndices(env[r].num_azimuth_steps, env[r].num_links,
                             env[r].state)[k] \in 0..(config[r].num_steps - 1)
                      /\ ToAngleIndices(env[r].num_azimuth_steps, env[r].num_links,
                             loc[r].action)[k] \in 0..(config[r].num_steps - 1)

\* exploration returned the largest action of a four-action space
C2_Witness ==
    /\ pc[1] = "step"
    /\ env[1].action_space_size = 4
    /\ loc[1].action = 3
    /\ loc[1].state = 0
    /\ agent[1].epsilon = Half

\* C3: step(action) sets the environment state to action, returns next_state = action
\* and done = true, and its reward is the total network capacity of the per-link
\* indices decoded from action, whatever state reset produced.
C3_StepIsOneTransition ==
    \A r \in Requests :
        pc[r] \in {"next_action", "update"} =>
            /\ env[r].state = loc[r].action
            /\ loc[r].next_state = loc[r].action
            /\ loc[r].done
            /\ loc[r].reward =
                  GetIndividualCapacities(request[r].links, config[r].num_steps,
                      ToAngleIndices(config[r].num_steps, Len(request[r].links),
                          loc[r].action)).total_capacity

\* a step from reset state 1 with action 0, whose rewards differ
C3_Witness ==
    /\ pc[1] = "update"
    /\ loc[1].state = 1
    /\ loc[1].action = 0
    /\ loc[1].reward = Rat(13, 2)
    /\ Len(request[1].links) = 2

\* choose_action runs twice per SARSA episode, once per episode otherwise
ChoicesPerEpisode(r) == IF agent[r].kind = "sarsa" THEN 2 ELSE 1

\* the operations of request r that have run, as the position in train demands
CallsAt(r, resets, choices, steps, updates, extracts) ==
    /\ calls[r].reset = resets
    /\ calls[r].choose_action = choices
    /\ calls[r].step = steps
    /\ calls[r].update = updates
    /\ calls[r].extract = extracts

TrainInOrder(r) ==
    LET ti == loc[r].i
        tk == ChoicesPerEpisode(r)
    IN  /\ pc[r] \in TrainPhases => ti <= config[r].episodes
        /\ pc[r] = "loop" => CallsAt(r, ti, tk * ti, ti, ti, 0)
        /\ pc[r] = "choose" => CallsAt(r, ti + 1, tk * ti, ti, ti, 0)
        /\ pc[r] = "step" => CallsAt(r, ti + 1, tk * ti + 1, ti, ti, 0)
        /\ pc[r] = "next_action" => CallsAt(r, ti + 1, tk * ti + 1, ti + 1, ti, 0)
        /\ pc[r] = "update" => CallsAt(r, ti + 1, tk * (ti + 1), ti + 1, ti, 0)
        /\ (pc[r] = "return" \/ Succeeded(r)) =>
              /\ ti = config[r].episodes
              /\ CallsAt(r, ti, tk * ti, ti, ti, 1)

\* train is never stuck: in each of its phases the guard of a next step holds
CanGoOn(r) ==
    pc[r] \in TrainPhases =>
        /\ running[proc[r]] = r
        /\ agent[r].kind \in Algorithms
        /\ pc[r] = "next_action" => agent[r].kind = "sarsa"
        /\ pc[r] = "choose" => ChooseOutcomes(r, loc[r].state) # {}
        /\ pc[r] = "next_action" => ChooseOutcomes(r, loc[r].next_state) # {}

\* the steps request r has left at most
Remaining(r) ==
    LET left == 5 * (config[r].episodes - loc[r].i)
    IN  CASE pc[r] = "idle" -> 5 * MaxEpisodes + 5
          [] pc[r] = "construct_env" -> left + 4
          [] pc[r] = "select_agent" -> left + 3
          [] pc[r] = "loop" -> left + 2
          [] pc[r] = "choose" -> left + 1
          [] pc[r] = "step" -> left
          [] pc[r] = "next_action" -> left - 1
          [] pc[r] = "update" -> left - 2
          [] pc[r] = "return" -> 1
          [] pc[r] = "done" -> 0

\* C4: train(episodes) runs exactly `episodes` episodes, each a reset, a choose_action,
\* a step and one update in that order, then extracts the best action once, after the
\* last update; it cannot stop before, and every step brings its end nearer.
C4_TrainRunsEveryEpisode ==
    /\ [](\A r \in Requests : TrainInOrder(r) /\ CanGoOn(r) /\ Remaining(r) >= 0)
    /\ [][Remaining(1) + Remaining(2) + Remaining(3)
            > Remaining(1)' + Remaining(2)' + Remaining(3)']_vars

\* a SARSA training of MaxEpisodes episodes has returned
C4_Witness ==
    /\ Succeeded(1)
    /\ agent[1].kind = "sarsa"
    /\ config[1].episodes = MaxEpisodes
    /\ calls[1].update = MaxEpisodes
    /\ calls[1].extract = 1

\* C5 as stated: get_individual_capacities is never called in an episode's step, and
\* once train has found the best action it has been called exactly once.
C5_CapacitiesQueriedOnce ==
    \A r \in Requests :
        /\ calls[r].capacities_in_step = 0
        /\ (pc[r] = "return" \/ Succeeded(r)) =>
              calls[r].capacities_in_step + calls[r].capacities_in_train = 1

\* C5, amended: train itself calls get_individual_capacities exactly once, after the
\* best action is found and not before; every step calls it once more, through
\* _calculate_network_capacity, so a whole train(episodes) makes episodes + 1 calls.
C5_CapacitiesQueriedOncePerStepAndOnceAtEnd ==
    \A r \in Requests :
        /\ calls[r].capacities_in_step = calls[r].step
        /\ calls[r].capacities_in_train =
              IF pc[r] = "return" \/ Succeeded(r) THEN 1 ELSE 0
        /\ (pc[r] = "return" \/ Succeeded(r)) =>
              calls[r].capacities_in_step + calls[r].capacities_in_train
                  = config[r].episodes + 1

\* train has found the best action after two episodes
C5_Witness ==
    /\ pc[1] = "return"
    /\ config[1].episodes = 2
    /\ calls[1].capacities_in_step = 2
    /\ calls[1].capacities_in_train = 1

\* C6: a request whose selector is none of the four algorithms constructs no agent
\* and no table and runs no episode, and its caller gets success = false, no
\* results, total_capacity 0 and the "unknown algorithm" message.
C6_UnknownAlgorithmFails ==
    \A r \in Requests :
        (pc[r] # "idle" /\ request[r].algorithm_type \notin Algorithms) =>
            /\ agent[r] = NoAgent
            /\ calls[r] = NoCalls
            /\ pc[r] \in {"construct_env", "select_agent", "done"}
            /\ pc[r] = "done" =>
                  /\ response[r].success = FALSE
                  /\ response[r].results = <<>>
                  /\ response[r].total_capacity = Zero
                  /\ response[r].message = "Unknown algorithm type"

\* a request for two links with an unknown selector has been answered
C6_Witness ==
    /\ pc[1] = "done"
    /\ request[1].algorithm_type = "dqn"
    /\ Len(request[1].links) = 2
    /\ response[1].message = "Unknown algorithm type"

\* C7 as stated: a request with an empty link list runs no training episode and gets
\* no success result.
C7_EmptyLinksRejected ==
    \A r \in Requests :
        (pc[r] # "idle" /\ request[r].links = <<>>) =>
            /\ calls[r] = NoCalls
            /\ ~response[r].success

(***************************************************************************)
(* The codec alone: _to_state_index and _to_angle_indices applied to every *)
(* input of their declared domains                                         *)
(***************************************************************************)
CodecTuples(num_links, num_steps) == [1..num_links -> 0..(num_steps - 1)]

InitCodec ==
    /\ InitHandlers
    /\ proc = [r \in Requests |-> 1]
    /\ seeded = FALSE
    /\ upd = NoUpd
    /\ \E nl \in 1..MaxLinks, ns \in 1..MaxBase :
          \/ \E c \in 0..(ns ^ nl - 1) :
                codec = [num_links |-> nl, num_steps |-> ns, phase |-> "code",
                         given |-> <<c>>, code |-> c, indices |-> <<>>]
          \/ \E tp \in CodecTuples(nl, ns) :
                codec = [num_links |-> nl, num_steps |-> ns, phase |-> "tuple",
                         given |-> tp, code |-> 0, indices |-> tp]

\* env._to_angle_indices(code)
Decode ==
    /\ codec.phase \in {"code", "encoded"}
    /\ codec' = [codec EXCEPT
                    !.indices = ToAngleIndices(codec.num_steps, codec.num_links, codec.code),
                    !.phase = IF codec.phase = "code" THEN "decoded" ELSE "redecoded"]
    /\ UNCHANGED <<handlerVars, upd>>

\* env._to_state_index(indices)
Encode ==
    /\ codec.phase \in {"tuple", "decoded"}
    /\ codec' = [codec EXCEPT
                    !.code = ToStateIndex(codec.num_steps, codec.indices),
                    !.phase = IF codec.phase = "tuple" THEN "encoded" ELSE "reencoded"]
    /\ UNCHANGED <<handlerVars, upd>>

NextCodec == Decode \/ Encode

SpecCodec == InitCodec /\ [][NextCodec]_vars

\* C1: _to_state_index and _to_angle_indices are mutual inverses: a code in
\* [0, num_steps^num_links) decoded and encoded again is the same code, a tuple of
\* num_links indices in [0, num_steps) encoded and decoded again is the same tuple,
\* and the encoding of such a tuple lies in [0, num_steps^num_links).
C1_CodecRoundTrip ==
    /\ codec.phase = "reencoded" => codec.code = codec.given[1]
    /\ codec.phase = "redecoded" => codec.indices = codec.given
    /\ codec.phase \in {"encoded", "redecoded"} =>
          codec.code \in 0..(codec.num_steps ^ codec.num_links - 1)

\* a three-digit code with three distinct digits went through decode and encode
C1_Witness ==
    /\ codec.phase = "reencoded"
    /\ codec.num_links = 3
    /\ codec.indices = <<2, 0, 1>>
    /\ codec.code = 11

(***************************************************************************)
(* The update rules alone: Q-learning's and Expected SARSA's update_q_table *)
(* applied to equal tables with the same arguments                         *)
(***************************************************************************)
UpdStates == 0..1
UpdValues == {Zero, Half, RInt(2)}
UpdRewards == {Zero, Rat(13, 2)}
UpdRates == {Half, One}

InitUpdate ==
    /\ InitHandlers
    /\ proc = [r \in Requests |-> 1]
    /\ seeded = FALSE
    /\ codec = NoCodec
    /\ \E tb \in [UpdStates -> [UpdStates -> UpdValues]],
          al \in UpdRates, eps \in {Zero, Half} :
          upd = [count |-> 0, q_table |-> tb, es_table |-> tb, alpha |-> al,
                 gamma |-> Half, epsilon |-> eps]

\* Both agents' update_q_table(state, action, reward, next_state)
ApplyUpdates ==
    /\ upd.count < MaxApply
    /\ \E st \in UpdStates, ac \in UpdStates, nx \in UpdStates, rw \in UpdRewards :
          upd' = [upd EXCEPT
                     !.count = @ + 1,
                     !.q_table = QLearningUpdate(upd.q_table, upd.alpha, upd.gamma,
                                     st, ac, rw, nx),
                     !.es_table = ExpectedSarsaUpdate(upd.es_table, upd.alpha, upd.gamma,
                                      upd.epsilon, st, ac, rw, nx)]
    /\ UNCHANGED <<handlerVars, codec>>

NextUpdate == ApplyUpdates

SpecUpdate == InitUpdate /\ [][NextUpdate]_vars

\* C10: with epsilon = 0 and equal alpha and gamma, Q-learning's and Expected SARSA's
\* update_q_table applied to equal tables with the same (state, action, reward,
\* next_state) produce equal tables.
C10_UpdatesAgreeAtZeroEpsilon ==
    upd.epsilon = Zero => upd.q_table = upd.es_table

\* an update with epsilon = 0 has changed a cell by bootstrapping from a row whose
\* entries differ
C10_Witness ==
    /\ upd.epsilon = Zero
    /\ upd.count = 1
    /\ upd.q_table[0][0] = RInt(4)
    /\ upd.q_table[1] = (0 :> Half @@ 1 :> RInt(2))

(***************************************************************************)
(* Seeded generators: a training run, then np.random.seed and random.seed  *)
(* with the same seed and the same run again                               *)
(***************************************************************************)
InitSeeded ==
    /\ InitHandlers
    /\ proc = [r \in Requests |-> 1]
    /\ seeded = TRUE
    /\ codec = NoCodec
    /\ upd = NoUpd

SeededScenarios == { [links |-> <<Link(<<0, 0>>, <<0, 0>>)>>, num_steps |-> 2] }

\* the first run: one episode of any of the four agents, or two greedy episodes of
\* Q-learning
SubmitFirst(r) ==
    \/ SubmitFrom(r, SeededScenarios, Algorithms, {<<Half, Half, Half>>}, {1})
    \/ SubmitFrom(r, SeededScenarios, {"q_learning"}, {<<Half, One, Zero>>}, {2})

\* Both generators are seeded again with the same seed, and request r repeats the
\* inputs of the finished request o
RerunSeeded(r, o) ==
    /\ pc[r] = "idle"
    /\ pc[o] = "done"
    /\ proc[r] = proc[o]
    /\ running[proc[r]] = 0
    /\ request' = [request EXCEPT ![r] = request[o]]
    /\ config' = [config EXCEPT ![r] = config[o]]
    /\ np_pos' = [np_pos EXCEPT ![proc[r]] = 0]
    /\ py_pos' = [py_pos EXCEPT ![proc[r]] = 0]
    /\ running' = [running EXCEPT ![proc[r]] = r]
    /\ pc' = [pc EXCEPT ![r] = "construct_env"]
    /\ UNCHANGED <<env, agent, loc, response, calls, proc, seeded, np_tape, py_tape,
                   codec, upd>>

\* the handler of request r after its entry, for a known selector
Serve(r) == ConstructEnv(r) \/ ConstructAgent(r) \/ TrainStep(r) \/ Respond(r)

NextSeeded ==
    \/ SubmitFirst(1)
    \/ RerunSeeded(2, 1)
    \/ \E r \in {1, 2} : Serve(r)

SpecSeeded == InitSeeded /\ [][NextSeeded]_vars

\* C8: two training runs of the same agent with identical links, num_steps, alpha,
\* gamma, epsilon and episode count, fed the same generator outputs (reset,
\* exploration and, for Double Q-learning, table selection), end with identical
\* value tables and identical result records.
C8_SameSeedSameResult ==
    (pc[1] = "done" /\ pc[2] = "done") =>
        /\ agent[2] = agent[1]
        /\ env[2] = env[1]
        /\ response[2] = response[1]

\* both runs of a Double Q-learning agent are done, and the coin sent the update to
\* the second table
C8_Witness ==
    /\ pc[1] = "done"
    /\ pc[2] = "done"
    /\ agent[2].kind = "double_q"
    /\ agent[2].q1 = ZeroTable(env[2].state_space_size)
    /\ agent[2].q2 # ZeroTable(env[2].state_space_size)
    /\ response[2].success

(***************************************************************************)
(* Two requests served by one process, whose generators they share, and    *)
(* the first of them served alone by a fresh process with the same seed    *)
(***************************************************************************)
InitShared ==
    /\ InitHandlers
    /\ proc = [r \in Requests |-> IF r = 3 THEN 2 ELSE 1]
    /\ seeded = TRUE
    /\ codec = NoCodec
    /\ upd = NoUpd

\* the requests to the shared process: request 1 trains one episode of any of the
\* four agents, request 2 only builds its environment and agent (no episode)
SubmitShared(r) ==
    IF r = 1
    THEN SubmitFrom(r, SeededScenarios, Algorithms, {<<Half, Half, Half>>}, {1})
    ELSE SubmitFrom(r, SeededScenarios, {"q_learning"}, {<<Half, Half, Half>>}, {0})

\* request r repeats the inputs of the finished request o in a process of its own,
\* freshly started with the same seed, once every other request is answered
RunAlone(r, o) ==
    /\ pc[r] = "idle"
    /\ \A q \in Requests \ {r} : pc[q] = "done"
    /\ proc[r] # proc[o]
    /\ running[proc[r]] = 0
    /\ request' = [request EXCEPT ![r] = request[o]]
    /\ config' = [config EXCEPT ![r] = config[o]]
    /\ running' = [running EXCEPT ![proc[r]] = r]
    /\ pc' = [pc EXCEPT ![r] = "construct_env"]
    /\ UNCHANGED <<env, agent, loc, response, calls, proc, seeded, np_tape, py_tape,
                   np_pos, py_pos, codec, upd>>

NextShared ==
    \/ \E r \in {1, 2} : SubmitShared(r)
    \/ RunAlone(3, 1)
    \/ \E r \in Requests : Serve(r)

SpecShared == InitShared /\ [][NextShared]_vars

\* C9 as stated: whatever the order in which a process serves two requests, each
\* request ends with the value tables and result records it ends with when it is
\* served alone.
C9_RequestsIndependent ==
    (pc[1] = "done" /\ pc[3] = "done") =>
        /\ agent[1] = agent[3]
        /\ response[1] = response[3]

(***************************************************************************)
(* Expected SARSA's bootstrap value against the policy of choose_action    *)
(***************************************************************************)
\* The probability with which choose_action returns action ac on this row: with
\* probability epsilon a uniform draw over the actions, otherwise np.argmax(row)
PolicyWeight(row, epsilon, ac) ==
    RAdd(RDiv(epsilon, RInt(Cardinality(DOMAIN row))),
         IF ac = ArgMax(row) THEN RSub(One, epsilon) ELSE Zero)

\* the expectation of the row under choose_action's distribution
PolicyExpectation(row, epsilon) ==
    RowSum([ac \in DOMAIN row |-> RMul(PolicyWeight(row, epsilon, ac), row[ac])])

\* The weight get_expected_value gives to action ac: random_prob through the row
\* sum, and greedy_prob on top of it for the maximum
UsedWeight(row, epsilon, ac) ==
    LET wnum_actions == Cardinality(DOMAIN row)
        wgreedy_prob == RAdd(RSub(One, epsilon), RDiv(epsilon, RInt(wnum_actions)))
        wrandom_prob == RDiv(epsilon, RInt(wnum_actions))
    IN  RAdd(wrandom_prob, IF ac = ArgMax(row) THEN wgreedy_prob ELSE Zero)

\* C11 as stated: for every row of the table and the agent's epsilon, the weights
\* get_expected_value uses sum to 1, the greedy action's weight is
\* 1 - epsilon + epsilon/|A|, and the value it returns is the expectation of the row
\* under choose_action's epsilon-greedy distribution.
C11_ExpectedValueIsPolicyExpectation ==
    upd.count > 0 =>
        \A st \in DOMAIN upd.es_table :
            LET row == upd.es_table[st]
            IN  /\ RowSum([ac \in DOMAIN row |-> UsedWeight(row, upd.epsilon, ac)]) = One
                /\ UsedWeight(row, upd.epsilon, ArgMax(row)) =
                       PolicyWeight(row, upd.epsilon, ArgMax(row))
                /\ GetExpectedValue(upd.es_table, upd.epsilon, st) =
                       PolicyExpectation(row, upd.epsilon)

(***************************************************************************)
(* The frame of a Double Q-learning update                                 *)
(***************************************************************************)
\* table `after` is table `before` with cell [state, action] set to new_value
OnlyCellWritten(before, after, state, action, new_value) ==
    /\ DOMAIN after = DOMAIN before
    /\ \A st \in DOMAIN before :
          /\ DOMAIN after[st] = DOMAIN before[st]
          /\ \A ac \in DOMAIN before[st] :
                after[st][ac] = IF st = state /\ ac = action
                                THEN new_value
                                ELSE before[st][ac]

\* the value of a table at a state for an action no other action of the row beats
GreedyValue(table, state) ==
    LET best == CHOOSE b \in DOMAIN table[state] :
                    \A c \in DOMAIN table[state] : RLeq(table[state][c], table[state][b])
    IN  table[state][best]

\* (1-alpha)*old + alpha*(reward + gamma * Other[next_state, a*]) for request r
DoubleQNewValue(r, mine, other) ==
    RAdd(RMul(RSub(One, agent[r].alpha), mine[loc[r].state][loc[r].action]),
         RMul(agent[r].alpha,
              RAdd(loc[r].reward,
                   RMul(agent[r].gamma, GreedyValue(other, loc[r].next_state)))))

\* C12: each Double Q-learning update writes one of the two tables and only its cell
\* [state, action]; the other table and every other cell keep their values, and the
\* cell becomes (1-alpha)*old + alpha*(reward + gamma * Other[next_state, a*]), Other
\* being the table that is not written and a* Other's own greedy action at next_state.
C12_DoubleQWritesOneCell ==
    [][\A r \in Requests :
          (pc[r] = "update" /\ agent[r].kind = "double_q" /\ pc'[r] # "update") =>
              \/ /\ agent'[r].q2 = agent[r].q2
                 /\ OnlyCellWritten(agent[r].q1, agent'[r].q1, loc[r].state, loc[r].action,
                        DoubleQNewValue(r, agent[r].q1, agent[r].q2))
              \/ /\ agent'[r].q1 = agent[r].q1
                 /\ OnlyCellWritten(agent[r].q2, agent'[r].q2, loc[r].state, loc[r].action,
                        DoubleQNewValue(r, agent[r].q2, agent[r].q1))]_vars

\* the second update of a Double Q-learning agent wrote the second table from a row
\* of the first table that the first update had written
C12_Witness ==
    /\ agent[1].kind = "double_q"
    /\ pc[1] = "loop"
    /\ calls[1].update = 2
    /\ agent[1].gamma = Half
    /\ loc[1].action # 0
    /\ GreedyValue(agent[1].q1, loc[1].next_state) # Zero
    /\ agent[1].q1[loc[1].next_state][0] = Zero
    /\ agent[1].q2[loc[1].state][loc[1].action] =
           Blend(agent[1].alpha, agent[1].gamma, Zero, loc[1].reward,
                 GreedyValue(agent[1].q1, loc[1].next_state))

(***************************************************************************)
(* What train returns                                                      *)
(***************************************************************************)
\* the value estimate of request r's agent: Q, or Q1 + Q2 for Double Q-learning
ValueAt(r, st, ac) ==
    IF agent[r].kind = "double_q"
    THEN RAdd(agent[r].q1[st][ac], agent[r].q2[st][ac])
    ELSE agent[r].q1[st][ac]

\* the maximum over the states st of value[st, ac]
ActionScore(r, ac) ==
    LET scores == { ValueAt(r, st, ac) : st \in DOMAIN agent[r].q1 }
    IN  CHOOSE top \in scores : \A sc \in scores : RLeq(sc, top)

\* the digit of link k (1-based) in joint action ac, the first link least significant
DecodedIndex(r, ac, k) == (ac \div (config[r].num_steps ^ (k - 1))) % config[r].num_steps

\* C13: the reported joint action is the lowest-index action maximizing the maximum
\* over states of the value estimate; train returns one record per link, in link
\* order, whose azimuth is the angle-grid entry at the action's decoded index for that
\* link and whose capacity is that link's capacity under the joint action; the
\* returned total is the sum of the per-link capacities.
C13_BestActionAndRecords ==
    \A r \in Requests :
        Succeeded(r) =>
            LET best == loc[r].best_joint_action_idx
                actions == 0..(env[r].action_space_size - 1)
                links == request[r].links
                decoded == [k \in 1..Len(links) |-> DecodedIndex(r, best, k)]
                records == response[r].results
            IN  /\ best \in actions
                /\ \A ac \in actions : RLeq(ActionScore(r, ac), ActionScore(r, best))
                /\ \A ac \in actions :
                      ac < best => RLess(ActionScore(r, ac), ActionScore(r, best))
                /\ Len(records) = Len(links)
                /\ \A k \in 1..Len(links) :
                      /\ records[k].azimuth = Rat(360 * decoded[k], config[r].num_steps)
                      /\ records[k].capacity =
                             LinkCapacity(links, config[r].num_steps, decoded, k)
                /\ response[r].total_capacity =
                       SumSeq([k \in 1..Len(links) |-> records[k].capacity])

\* a two-link request has returned: the best joint action is action 2, learnt from
\* reset state 1, and its two links point at different grid entries
C13_Witness ==
    /\ Succeeded(1)
    /\ Len(request[1].links) = 2
    /\ loc[1].best_joint_action_idx = 2
    /\ response[1].results[1].azimuth # response[1].results[2].azimuth
    /\ response[1].results[1].capacity = Half
    /\ response[1].total_capacity = One
    /\ agent[1].q1[1][2] # Zero

(***************************************************************************)
(* The SARSA episode: step, choice of next_action, update                  *)
(***************************************************************************)
\* request r's SARSA training stands between step and the end of the update
SarsaAfterStep(r) == agent[r].kind = "sarsa" /\ pc[r] \in {"next_action", "update"}

\* (1-alpha)*old + alpha*(reward + gamma * Q[next_state, next_action]) for request r
SarsaNewValue(r) ==
    RAdd(RMul(RSub(One, agent[r].alpha), agent[r].q1[loc[r].state][loc[r].action]),
         RMul(agent[r].alpha,
              RAdd(loc[r].reward,
                   RMul(agent[r].gamma,
                        agent[r].q1[loc[r].next_state][loc[r].next_action]))))

\* the step of request r that chooses next_action: the table, the environment and
\* the counts of step and update stay, and the choice is epsilon-greedy on the row of
\* next_state
SarsaChoosesNext(r) ==
    /\ agent'[r] = agent[r]
    /\ env'[r] = env[r]
    /\ calls'[r].step = calls[r].step
    /\ calls'[r].update = calls[r].update
    /\ calls'[r].choose_action = calls[r].choose_action + 1
    /\ loc'[r].next_state = loc[r].next_state
    /\ loc'[r].next_action \in 0..(env[r].action_space_size - 1)
    /\ \/ loc'[r].next_action = ArgMax(agent[r].q1[loc[r].next_state])
       \/ RLess(Zero, agent[r].epsilon)

\* the update step of request r: one cell written from Q[next_state, next_action],
\* the environment left where step put it
SarsaUpdates(r) ==
    /\ OnlyCellWritten(agent[r].q1, agent'[r].q1, loc[r].state, loc[r].action,
           SarsaNewValue(r))
    /\ env'[r] = env[r]
    /\ calls'[r].step = calls[r].step
    /\ calls'[r].choose_action = calls[r].choose_action

\* C14: in every SARSA episode next_action is chosen by choose_action on next_state,
\* which is the action just taken, after step and before the update, from the table
\* the update has not yet written; the update sets Q[state, action] to
\* (1-alpha)*old + alpha*(reward + gamma * Q[next_state, next_action]); next_action is
\* never executed in the environment.
C14_SarsaIsOnPolicy ==
    /\ [](\A r \in Requests :
             SarsaAfterStep(r) =>
                 /\ loc[r].next_state = loc[r].action
                 /\ env[r].state = loc[r].action
                 /\ calls[r].step = calls[r].update + 1
                 /\ calls[r].choose_action =
                        2 * calls[r].update + (IF pc[r] = "update" THEN 2 ELSE 1))
    /\ [][\A r \in Requests :
             /\ (agent[r].kind = "sarsa" /\ pc[r] = "step") =>
                    pc'[r] \in {"step", "next_action"}
             /\ (SarsaAfterStep(r) /\ pc[r] = "next_action" /\ pc'[r] # pc[r]) =>
                    (pc'[r] = "update" /\ SarsaChoosesNext(r))
             /\ (SarsaAfterStep(r) /\ pc[r] = "update" /\ pc'[r] # pc[r]) =>
                    (pc'[r] = "loop" /\ SarsaUpdates(r))]_vars

\* the second SARSA update bootstrapped from an explored next_action whose entry is 0
\* although the row of next_state holds a positive entry
C14_Witness ==
    /\ agent[1].kind = "sarsa"
    /\ pc[1] = "loop"
    /\ calls[1].update = 2
    /\ loc[1].state # loc[1].next_state
    /\ RowMax(agent[1].q1[loc[1].next_state]) # Zero
    /\ agent[1].q1[loc[1].next_state][loc[1].next_action] = Zero
    /\ loc[1].reward # Zero
    /\ agent[1].gamma # Zero
    /\ agent[1].q1[loc[1].state][loc[1].action] = RMul(agent[1].alpha, loc[1].reward)

(***************************************************************************)
(* Signs of the table entries and the cells training has not reached       *)
(***************************************************************************)
\* the tables of request r's agent: q_table, or q1 and q2
TablesOf(r) ==
    IF agent[r].kind = "double_q" THEN {agent[r].q1, agent[r].q2} ELSE {agent[r].q1}

\* some entry of some table of request r is positive
SomeEntryPositive(r) ==
    \E tb \in TablesOf(r) : \E st \in DOMAIN tb : \E ac \in DOMAIN tb[st] :
        RLess(Zero, tb[st][ac])

\* C15: for each of the four agents, at every point of training every table entry is
\* >= 0, and a cell [s, a] that has not been the (reset state, chosen action) pair of
\* a completed episode holds 0; so when some entry is positive, the best joint action
\* extracted after training was the action taken in some episode.
C15_UntakenCellsStayZero ==
    \A r \in Requests :
        agent[r].kind \in Algorithms =>
            /\ \A tb \in TablesOf(r) : \A st \in DOMAIN tb : \A ac \in DOMAIN tb[st] :
                  /\ RLeq(Zero, tb[st][ac])
                  /\ <<st, ac>> \notin calls[r].taken => tb[st][ac] = Zero
            /\ (pc[r] \in {"return", "done"} /\ SomeEntryPositive(r)) =>
                  \E st \in DOMAIN agent[r].q1 :
                      <<st, loc[r].best_joint_action_idx>> \in calls[r].taken

\* training has returned after two episodes with different pairs; one of them earned
\* reward 0 and left its cell at 0, the other made the best joint action, which is
\* not action 0
C15_Witness ==
    /\ Succeeded(1)
    /\ Cardinality(calls[1].taken) = 2
    /\ SomeEntryPositive(1)
    /\ loc[1].best_joint_action_idx # 0
    /\ \E pr \in calls[1].taken :
          /\ pr[2] # loc[1].best_joint_action_idx
          /\ \A tb \in TablesOf(1) : tb[pr[1]][pr[2]] = Zero

=============================================================================
